---- MODULE Spec2Model ----
(***************************************************************************)
(* A model of the DosMangos exchange-rate backend: the rate store          *)
(* (backend/app/database.py), the resolver (backend/app/rate_service.py)   *)
(* and the two provider ingestions (oxr_client.py, dolar_scraper.py).      *)
(*                                                                         *)
(* Rates are REAL/float in the program.  They are modelled as exact        *)
(* rationals <<n, d>> in lowest terms with d > 0, so that 1.0 / r and      *)
(* r1 * r2 are computed, not assumed; the program's results agree with     *)
(* the exact ones up to floating-point rounding.                           *)
(*                                                                         *)
(* Dates are ISO strings in the program.  They are modelled by their day   *)
(* number counted from a Monday, so that weekday() and timedelta(days=k)   *)
(* are arithmetic.                                                         *)
(***************************************************************************)
EXTENDS Integers, Sequences, FiniteSets, TLC

VARIABLES
    store,      \* the rows of table exchange_rates
    lastWrite,  \* history: key -> payload of the most recent insert_rate for it
    now,        \* the clock datetime.utcnow() reads
    ret,        \* the store operation just made and what it returned, if any
    pc,         \* where the get_rates coroutine stands
    call,       \* the arguments of the get_rates call in progress
    loc,        \* the locals get_rates keeps across an await
    result,     \* what get_rates returned
    store0,     \* history: the store when get_rates was called
    prov,       \* history: the provider invocations of the call, in order
    http,       \* where the /rates endpoint stands, and its response
    tasks       \* the other tasks of the event loop: name -> what each has saved

vars == <<store, lastWrite, now, ret, pc, call, loc, result, store0, prov, http, tasks>>

-----------------------------------------------------------------------------
(* Rational numbers *)

Abs(x) == IF x < 0 THEN -x ELSE x

RECURSIVE Gcd(_, _)
Gcd(a, b) == IF b = 0 THEN a ELSE Gcd(b, a % b)

Rat(n, d) == LET g == Gcd(Abs(n), d) IN IF g = 0 THEN <<n, d>> ELSE <<n \div g, d \div g>>

\* rate > 0
Positive(r) == r[1] > 0

\* 1.0 / r, for r # 0
Inv(r) == IF r[1] > 0 THEN <<r[2], r[1]>> ELSE <<-r[2], -r[1]>>

\* a * b
Mul(a, b) == Rat(a[1] * b[1], a[2] * b[2])

-----------------------------------------------------------------------------
(* Values *)

USD == "USD"
ARS == "ARS"
EUR == "EUR"

\* Python's None for an Optional[str] argument
NoType == "None"
\* Python's None for an Optional[float] result
NoRate == <<0, 0>>
\* Python's None for an Optional[str] date, and a response without timestamp
NoDate == -1

\* Day numbers counted from a Monday: weekday() is the remainder by 7
Fri == 4
Sat == 5
Sun == 6
weekday(d) == d % 7

-----------------------------------------------------------------------------
(* The rate store: database.py *)

Row(f, t, rate, rt, d, src, fa) ==
    [from_currency |-> f, to_currency |-> t, rate |-> rate, rate_type |-> rt,
     date |-> d, source |-> src, fetched_at |-> fa]

\* UNIQUE(from_currency, to_currency, date, rate_type)
Key(r) == <<r.from_currency, r.to_currency, r.date, r.rate_type>>

\* INSERT OR REPLACE with UNIQUE(from_currency, to_currency, date): the rows
\* of the pair and date under other rate types are replaced as well
insert_rate_replace_pair(st, f, t, rate, rt, d, src, fa) ==
    {r \in st : <<r.from_currency, r.to_currency, r.date>> # <<f, t, d>>}
        \cup {[from_currency |-> f, to_currency |-> t, rate |-> rate, rate_type |-> rt,
               date |-> d, source |-> src, fetched_at |-> fa]}

\* INSERT OR REPLACE without the replacement of the conflicting row
insert_rate_no_replace(st, f, t, rate, rt, d, src, fa) ==
    st \cup {Row(f, t, rate, rt, d, src, fa)}

\* INSERT OR REPLACE that keeps the row already stored for the key
insert_rate_keep_first(st, f, t, rate, rt, d, src, fa) ==
    IF \E r \in st : Key(r) = <<f, t, d, rt>>
    THEN st
    ELSE st \cup {Row(f, t, rate, rt, d, src, fa)}

\* INSERT OR REPLACE: the row with the same UNIQUE key, if any, is deleted,
\* then the new row is inserted (its id is a fresh uuid and never conflicts)
insert_rate(st, f, t, rate, rt, d, src, fa) ==
    {r \in st : Key(r) # <<f, t, d, rt>>} \cup {Row(f, t, rate, rt, d, src, fa)}

ViewRow(f, t, rate, rt, d, src, rs) ==
    [from_currency |-> f, to_currency |-> t, rate |-> rate, rate_type |-> rt,
     date |-> d, source |-> src, rate_source |-> rs]

\* first branch of the view: the stored rows with rate > 0
DirectRows(st) ==
    {ViewRow(e.from_currency, e.to_currency, e.rate, e.rate_type, e.date,
             e.source, "direct") : e \in {x \in st : Positive(x.rate)}}

\* the inverse branch without its NOT EXISTS test
InverseRowsAlways(st) ==
    {ViewRow(e1.to_currency, e1.from_currency, Inv(e1.rate), e1.rate_type, e1.date,
             e1.source \o " (computed inverse)", "inverse") :
        e1 \in {x \in st : Positive(x.rate)}}

\* the inverse branch with its NOT EXISTS test looking for the reversed row
\* under 'official' whatever the rate type of the row
InverseRowsOfficialTest(st) ==
    {ViewRow(e1.to_currency, e1.from_currency, Inv(e1.rate), e1.rate_type, e1.date,
             e1.source \o " (computed inverse)", "inverse") :
        e1 \in {x \in st : /\ Positive(x.rate)
                           /\ ~ \E e2 \in st : /\ e2.from_currency = x.to_currency
                                                /\ e2.to_currency = x.from_currency
                                                /\ e2.rate_type = "official"
                                                /\ e2.date = x.date}}

\* second branch of the view: the reciprocal of a stored row with rate > 0,
\* only where no row is stored for the reversed key
InverseRows(st) ==
    {ViewRow(e1.to_currency, e1.from_currency, Inv(e1.rate), e1.rate_type, e1.date,
             e1.source \o " (computed inverse)", "inverse") :
        e1 \in {x \in st : /\ Positive(x.rate)
                           /\ ~ \E e2 \in st : /\ e2.from_currency = x.to_currency
                                                /\ e2.to_currency = x.from_currency
                                                /\ e2.rate_type = x.rate_type
                                                /\ e2.date = x.date}}

\* the view exchange_rates_bidirectional (UNION ALL of the two branches)
exchange_rates_bidirectional(st) == DirectRows(st) \cup InverseRows(st)

\* CASE rate_type WHEN 'official' THEN 1 ... ELSE 5 END, with official and blue swapped
PriorityBlueFirst(rt) ==
    CASE rt = "blue" -> 1
      [] rt = "official" -> 2
      [] rt = "mep" -> 3
      [] rt = "ccl" -> 4
      [] OTHER -> 5

\* CASE rate_type WHEN 'official' THEN 1 ... ELSE 5 END
Priority(rt) ==
    CASE rt = "official" -> 1
      [] rt = "blue" -> 2
      [] rt = "mep" -> 3
      [] rt = "ccl" -> 4
      [] OTHER -> 5

\* get_rate reading the bidirectional view instead of the table
GetRateRowsFromView(st, f, t, d, rate_type) ==
    {r \in exchange_rates_bidirectional(st) :
        /\ r.from_currency = f /\ r.to_currency = t /\ r.date = d
        /\ (rate_type # NoType => r.rate_type = rate_type)}

\* the rows get_rate selects from table exchange_rates (before ORDER BY, LIMIT)
GetRateRows(st, f, t, d, rate_type) ==
    {r \in st :
        /\ r.from_currency = f /\ r.to_currency = t /\ r.date = d
        /\ (rate_type # NoType => r.rate_type = rate_type)}

\* get_rate: the values it may return.  ORDER BY the priority, LIMIT 1: one of
\* the rows of least priority number (SQLite picks any among equals); None
\* when no row matches.
get_rate(st, f, t, d, rate_type) ==
    LET rows == GetRateRows(st, f, t, d, rate_type)
        first == {r \in rows : \A q \in rows : Priority(r.rate_type) <= Priority(q.rate_type)}
    IN  IF rows = {} THEN {NoRate} ELSE {r.rate : r \in first}

\* the SELECT of get_all_rates_for_base without its AND rate_type = ?
GetAllRowsAnyType(st, base, d, rate_type) ==
    {r \in exchange_rates_bidirectional(st) : r.from_currency = base /\ r.date = d}

\* the rows get_all_rates_for_base selects from the bidirectional view
GetAllRows(st, base, d, rate_type) ==
    {r \in exchange_rates_bidirectional(st) :
        /\ r.from_currency = base /\ r.date = d
        /\ (rate_type # NoType => r.rate_type = rate_type)}

\* get_all_rates_for_base: {currency: {rate_type: rate}}, a function on the
\* currencies found whose values are functions on the rate types found
get_all_rates_for_base(st, base, d, rate_type) ==
    LET rows == GetAllRows(st, base, d, rate_type)
    IN  [c \in {r.to_currency : r \in rows} |->
            [rt \in {r.rate_type : r \in {x \in rows : x.to_currency = c}} |->
                (CHOOSE r \in rows : r.to_currency = c /\ r.rate_type = rt).rate]]

\* SELECT date FROM exchange_rates ORDER BY date DESC LIMIT 1, taking the
\* oldest date
get_latest_rate_date_oldest(st) ==
    IF st = {} THEN NoDate
    ELSE CHOOSE d \in {r.date : r \in st} : \A r \in st : d <= r.date

\* get_latest_rate_date(): SELECT date FROM exchange_rates ORDER BY date DESC
\* LIMIT 1; row['date'] if row else None
get_latest_rate_date(st) ==
    IF st = {} THEN NoDate
    ELSE CHOOSE d \in {r.date : r \in st} : \A r \in st : r.date <= d

-----------------------------------------------------------------------------
(* Operations on the store, as called by a client of database.py *)

\* the rate types a client stores: the four ranked ones and two unranked
RateTypes == {"official", "blue", "mep", "ccl", "crypto", "tarjeta"}

MaxRecords == 3

\* the keys clients write in SpecStore: USD->ARS under every rate type,
\* ARS->USD under official and blue
StoreKeys ==
    {<<USD, ARS, Fri, rt>> : rt \in RateTypes}
        \cup {<<ARS, USD, Fri, rt>> : rt \in {"official", "blue"}}

\* <<rate, source, fetched_at>> of a client's insert_rate; 0 is a rate the
\* table accepts (REAL NOT NULL, no CHECK)
Payloads ==
    {<<Rat(2, 1), "test", 1>>, <<Rat(3, 1), "ambito", 2>>, <<Rat(0, 1), "test", 2>>}

IdleCall == [base |-> USD, symbols |-> <<>>, date_str |-> Fri, rate_type |-> NoType]
NoLoc == [rates |-> <<>>, missing |-> <<>>, base_to_usd |-> <<>>]

Init ==
    /\ store = {}
    /\ lastWrite = <<>>
    /\ now = 0
    /\ ret = [op |-> "none"]
    /\ pc = "idle"
    /\ call = IdleCall
    /\ loc = NoLoc
    /\ result = <<>>
    /\ store0 = {}
    /\ prov = <<>>
    /\ http = [at |-> "none"]
    /\ tasks = <<>>

resolverVars == <<now, tasks, pc, call, loc, result, store0, prov, http>>

\* insert_rate(from, to, rate, rate_type, date, source, fetched_at)
InsertRate(k, p) ==
    /\ pc = "idle" /\ ret.op = "none"
    /\ \/ \E r \in store : Key(r) = k
       \/ Cardinality(store) < MaxRecords
    /\ store' = insert_rate(store, k[1], k[2], p[1], k[4], k[3], p[2], p[3])
    /\ lastWrite' = [x \in DOMAIN lastWrite \cup {k} |-> IF x = k THEN p ELSE lastWrite[x]]
    /\ ret' = [op |-> "insert_rate", key |-> k,
               replaced |-> {r \in store : Key(r) = k}]
    /\ UNCHANGED resolverVars

\* get_rate keeping the reciprocal it found for the reversed pair in the table
GetRateCaching(f, t, d, rt) ==
    /\ pc = "idle" /\ ret.op = "none"
    /\ \E v \in get_rate(store, f, t, d, rt) :
          ret' = [op |-> "get_rate", from_currency |-> f, to_currency |-> t,
                  date |-> d, rate_type |-> rt, value |-> v]
    /\ store' = store \cup {Row(f, t, Inv(r.rate), r.rate_type, d, "cache", now) :
                                r \in {x \in GetRateRows(store, t, f, d, rt) :
                                            Positive(x.rate)}}
    /\ UNCHANGED lastWrite
    /\ UNCHANGED resolverVars

\* rate = get_rate(from, to, date, rate_type)
GetRate(f, t, d, rt) ==
    /\ pc = "idle" /\ ret.op = "none"
    /\ \E v \in get_rate(store, f, t, d, rt) :
          ret' = [op |-> "get_rate", from_currency |-> f, to_currency |-> t,
                  date |-> d, rate_type |-> rt, value |-> v]
    /\ UNCHANGED <<store, lastWrite>>
    /\ UNCHANGED resolverVars

\* rates = get_all_rates_for_base(base, date, rate_type)
GetAllRatesForBase(b, d, rt) ==
    /\ pc = "idle" /\ ret.op = "none"
    /\ ret' = [op |-> "get_all_rates_for_base", base |-> b, date |-> d,
               rate_type |-> rt, value |-> get_all_rates_for_base(store, b, d, rt)]
    /\ UNCHANGED <<store, lastWrite>>
    /\ UNCHANGED resolverVars

\* get_latest_rate_date() is called
GetLatestRateDate ==
    /\ pc = "idle" /\ ret.op = "none"
    /\ ret' = [op |-> "get_latest_rate_date", value |-> get_latest_rate_date(store)]
    /\ UNCHANGED <<store, lastWrite>>
    /\ UNCHANGED resolverVars

\* the client takes the value the operation returned, and goes on
Consume ==
    /\ pc = "idle" /\ ret.op # "none"
    /\ ret' = [op |-> "none"]
    /\ UNCHANGED <<store, lastWrite>>
    /\ UNCHANGED resolverVars

StoreInsert == \E k \in StoreKeys, p \in Payloads : InsertRate(k, p)

StoreGetRate ==
    \E f \in {USD, ARS}, t \in {USD, ARS}, rt \in RateTypes \cup {NoType} :
        f # t /\ GetRate(f, t, Fri, rt)

StoreGetAll ==
    \E b \in {USD, ARS}, rt \in RateTypes \cup {NoType} : GetAllRatesForBase(b, Fri, rt)

NextStore ==
    \/ StoreInsert
    \/ StoreGetRate
    \/ StoreGetAll
    \/ GetLatestRateDate
    \/ Consume

\* the store driven by its clients alone: upserts and reads
SpecStore == Init /\ [][NextStore]_vars

-----------------------------------------------------------------------------
(* Provider ingestion: oxr_client.py and dolar_scraper.py *)

\* rate REAL NOT NULL: INSERT OR REPLACE of a null rate aborts with an
\* IntegrityError, which insert_rate lets through
RateIsNull(rate) == rate = NoRate

\* for currency, rate in rates.items(), from the i-th item on: insert
\* USD -> currency, skipping USD; an insert that raises ends the loop with
\* the rows inserted so far.  rates is the sequence of the <<currency, rate>>
\* items in the order of the response
RECURSIVE StoreOxrRates(_, _, _, _, _)
StoreOxrRates(st, rates, i, target_date, fetched_at) ==
    IF i > Len(rates) THEN [store |-> st, raised |-> FALSE]
    ELSE LET currency == rates[i][1]
             rate == rates[i][2]
         IN  IF currency = USD
             THEN StoreOxrRates(st, rates, i + 1, target_date, fetched_at)
             ELSE IF RateIsNull(rate)
             THEN [store |-> st, raised |-> TRUE]
             ELSE StoreOxrRates(insert_rate(st, USD, currency, rate, "official",
                                            target_date, "openexchangerates", fetched_at),
                                rates, i + 1, target_date, fetched_at)

\* the date taken from the request before the response's timestamp
OxrTargetDateRequested(date_str, resp, today) ==
    IF date_str # NoDate THEN date_str
    ELSE IF resp.timestamp # NoDate THEN resp.timestamp ELSE today

\* the date taken from the wall clock whatever the response and the request
OxrTargetDateToday(date_str, resp, today) == today

\* the date the rows are stored under: the response's timestamp when it has
\* one, else the requested date, else today
OxrTargetDate(date_str, resp, today) ==
    IF resp.timestamp # NoDate THEN resp.timestamp
    ELSE IF date_str # NoDate THEN date_str ELSE today

\* fetch_and_store_rates(date_str) once the provider has answered 200 with
\* resp = [rates: items, timestamp: date]: the store it leaves, and whether
\* it raised
fetch_and_store_rates(st, date_str, resp, fetched_at, today) ==
    StoreOxrRates(st, resp.rates, 1, OxrTargetDate(date_str, resp, today), fetched_at)

\* first loop of scrape_and_store_ars_rates: USD -> ARS = compra and
\* ARS -> USD = 1 / venta for every date fetched
RECURSIVE StoreBlueRates(_, _, _, _)
StoreBlueRates(st, rates_data, todo, fetched_at) ==
    IF todo = {} THEN st
    ELSE LET date == CHOOSE d \in todo : TRUE
             compra == rates_data[date][1]
             venta == rates_data[date][2]
             s1 == insert_rate(st, USD, ARS, compra, "blue", date, "ambito", fetched_at)
             s2 == insert_rate(s1, ARS, USD, Inv(venta), "blue", date, "ambito", fetched_at)
         IN  StoreBlueRates(s2, rates_data, todo \ {date}, fetched_at)

\* the four inserts that copy one Friday onto its Saturday and Sunday
CopyFriday(st, date, compra, venta, fetched_at) ==
    LET saturday == date + 1
        sunday == date + 2
        s1 == insert_rate(st, USD, ARS, compra, "blue", saturday, "ambito (weekend)", fetched_at)
        s2 == insert_rate(s1, ARS, USD, Inv(venta), "blue", saturday, "ambito (weekend)", fetched_at)
        s3 == insert_rate(s2, USD, ARS, compra, "blue", sunday, "ambito (weekend)", fetched_at)
    IN  insert_rate(s3, ARS, USD, Inv(venta), "blue", sunday, "ambito (weekend)", fetched_at)

\* the weekday test taking Saturday for the day to copy
IsFridayOffByOne(date) == weekday(date) = Sat

\* date_obj.weekday() == 4
IsFriday(date) == weekday(date) = Fri

\* second loop of scrape_and_store_ars_rates: every Friday fetched is copied
RECURSIVE CopyFridays(_, _, _, _)
CopyFridays(st, rates_data, todo, fetched_at) ==
    IF todo = {} THEN st
    ELSE LET date == CHOOSE d \in todo : TRUE
             next == IF IsFriday(date)
                     THEN CopyFriday(st, date, rates_data[date][1], rates_data[date][2],
                                     fetched_at)
                     ELSE st
         IN  CopyFridays(next, rates_data, todo \ {date}, fetched_at)

\* the batch cut after its first insert_rate: USD -> ARS = compra of one date
\* is stored, ARS -> USD is not yet
scrape_first_insert_only(st, rates_data, fetched_at) ==
    LET date == CHOOSE d \in DOMAIN rates_data : TRUE
    IN  insert_rate(st, USD, ARS, rates_data[date][1], "blue", date, "ambito", fetched_at)

\* scrape_and_store_ars_rates once the provider has answered rates_data =
\* date -> <<compra, venta>>, not empty: the store it leaves
scrape_and_store_ars_rates(st, rates_data, fetched_at) ==
    CopyFridays(StoreBlueRates(st, rates_data, DOMAIN rates_data, fetched_at),
                rates_data, DOMAIN rates_data, fetched_at)

-----------------------------------------------------------------------------
(* The resolver: rate_service.py *)

\* s in symbols
InList(symbols, s) == \E i \in 1..Len(symbols) : symbols[i] = s

\* the test of step 1 reading the rates of base USD under any rate type
NeedsOxrAnyType(st, base, date_str) ==
    /\ base = USD
    /\ DOMAIN get_all_rates_for_base(st, base, date_str, NoType) = {}

\* base == "USD" and not official_rates
NeedsOxr(st, base, date_str) ==
    /\ base = USD
    /\ DOMAIN get_all_rates_for_base(st, base, date_str, "official") = {}

\* has_ars_blue = existing_blue and "ARS" in existing_blue
HasArsBlue(st, base, date_str) ==
    LET check_base == IF base \in {USD, ARS} THEN base ELSE USD
        existing_blue == get_all_rates_for_base(st, check_base, date_str, "blue")
    IN  DOMAIN existing_blue # {} /\ ARS \in DOMAIN existing_blue

\* the conditions under which get_rates awaits scrape_and_store_ars_rates
NeedsScrape(st, base, symbols, date_str) ==
    /\ \/ base \in {USD, ARS}
       \/ symbols # <<>> /\ \E i \in 1..Len(symbols) : symbols[i] \in {USD, ARS}
    /\ \/ symbols = <<>>
       \/ InList(symbols, ARS)
       \/ base = ARS
    /\ ~ HasArsBlue(st, base, date_str)

\* rates = all_base_rates, whether symbols are given or not
ProjectAll(all_base_rates, symbols) == all_base_rates

\* rates = {symbol: all_base_rates[symbol] for symbol in symbols if symbol in
\* all_base_rates}, or all_base_rates when no symbols are given
Project(all_base_rates, symbols) ==
    IF symbols # <<>>
    THEN [c \in {x \in DOMAIN all_base_rates : InList(symbols, x)} |-> all_base_rates[c]]
    ELSE all_base_rates

\* missing_symbols taking every requested symbol for missing
MissingSymbolsAll(symbols, rates) == symbols

\* missing_symbols = [s for s in symbols if s not in rates]
MissingSymbols(symbols, rates) == SelectSeq(symbols, LAMBDA x : x \notin DOMAIN rates)

\* the interpolation product with the base leg not inverted into base -> USD
InterpolatedLeaky(base_to_usd_rates, usd_rates, target) ==
    [rt \in DOMAIN base_to_usd_rates[USD] |->
        IF rt \in DOMAIN usd_rates[target]
        THEN Mul(base_to_usd_rates[USD][rt], usd_rates[target][rt])
        ELSE base_to_usd_rates[USD][rt]]

\* the inner loop of _interpolate_via_usd for one target: every rate type of
\* base -> USD that USD -> target has as well
Interpolated(base_to_usd_rates, usd_rates, target) ==
    [rt \in {x \in DOMAIN base_to_usd_rates[USD] : x \in DOMAIN usd_rates[target]} |->
        Mul(base_to_usd_rates[USD][rt], usd_rates[target][rt])]

\* the loop of _interpolate_via_usd over the targets, once both legs are read
InterpolateTargets(base_to_usd_rates, usd_rates, targets) ==
    [t \in {x \in DOMAIN usd_rates :
                /\ InList(targets, x)
                /\ DOMAIN Interpolated(base_to_usd_rates, usd_rates, x) # {}} |->
        Interpolated(base_to_usd_rates, usd_rates, t)]

\* rates.update(interpolated)
Update(rates, interpolated) ==
    [c \in DOMAIN rates \cup DOMAIN interpolated |->
        IF c \in DOMAIN interpolated THEN interpolated[c] ELSE rates[c]]

\* return rates
Return(rates) ==
    /\ pc' = "done"
    /\ result' = rates
    /\ loc' = NoLoc

\* get_rates suspends at an await
Await(label, locals) ==
    /\ pc' = label
    /\ result' = <<>>
    /\ loc' = locals

\* _interpolate_via_usd reporting a zero rate for every target when the base
\* has no rate to USD
InterpolateZeroFill(st, c, rates, missing) ==
    LET base_to_usd_rates == get_all_rates_for_base(st, c.base, c.date_str, c.rate_type)
        usd_rates == get_all_rates_for_base(st, USD, c.date_str, c.rate_type)
    IN  IF USD \notin DOMAIN base_to_usd_rates
        THEN Return(Update(rates, [t \in {missing[i] : i \in 1..Len(missing)} |->
                                      [rt \in {"official"} |-> Rat(0, 1)]]))
        ELSE IF DOMAIN usd_rates = {}
        THEN Await("oxr2", [rates |-> rates, missing |-> missing,
                            base_to_usd |-> base_to_usd_rates])
        ELSE Return(Update(rates, InterpolateTargets(base_to_usd_rates, usd_rates, missing)))

\* _interpolate_via_usd up to its await or its return, on store st
Interpolate(st, c, rates, missing) ==
    LET base_to_usd_rates == get_all_rates_for_base(st, c.base, c.date_str, c.rate_type)
        usd_rates == get_all_rates_for_base(st, USD, c.date_str, c.rate_type)
    IN  IF USD \notin DOMAIN base_to_usd_rates
        THEN Return(rates)
        ELSE IF DOMAIN usd_rates = {}
        THEN Await("oxr2", [rates |-> rates, missing |-> missing,
                            base_to_usd |-> base_to_usd_rates])
        ELSE Return(Update(rates, InterpolateTargets(base_to_usd_rates, usd_rates, missing)))

\* get_rates from line 64 to its next await or its return, on store st
ReadAndProject(st, c) ==
    LET all_base_rates == get_all_rates_for_base(st, c.base, c.date_str, c.rate_type)
        rates == Project(all_base_rates, c.symbols)
    IN  IF c.symbols # <<>> /\ Cardinality(DOMAIN rates) < Len(c.symbols)
        THEN Interpolate(st, c, rates, MissingSymbols(c.symbols, rates))
        ELSE Return(rates)

\* get_rates from line 44 to its next await or its return, on store st
BlueCheck(st, c) ==
    IF NeedsScrape(st, c.base, c.symbols, c.date_str)
    THEN Await("scrape", NoLoc)
    ELSE ReadAndProject(st, c)

\* except Exception as e: logger.warning(...): the OXR failure is swallowed
OxrFailed(st, c) == BlueCheck(st, c)

\* except Exception as e: logger.warning(...): the ambito failure is swallowed
ScrapeFailed(st, c) == ReadAndProject(st, c)

\* get_rates(base, symbols, date_str, rate_type) is called
GetRates(base, symbols, date_str, rate_type) ==
    /\ pc = "idle" /\ ret.op = "none"
    /\ call' = [base |-> base, symbols |-> symbols, date_str |-> date_str,
                rate_type |-> rate_type]
    /\ store0' = store
    /\ prov' = <<>>
    /\ IF NeedsOxr(store, base, date_str)
       THEN Await("oxr1", NoLoc)
       ELSE BlueCheck(store, call')
    /\ UNCHANGED <<store, lastWrite, now, tasks, ret, http>>

\* the provider answers the fetch of line 40: fetch_and_store_rates stores
\* and returns, or raises at an insert into the except of line 41
Oxr1Stored(resp) ==
    /\ pc = "oxr1"
    /\ LET out == fetch_and_store_rates(store, call.date_str, resp, now, now)
       IN  /\ store' = out.store
           /\ prov' = Append(prov, [provider |-> "oxr", failed |-> out.raised])
           /\ IF out.raised THEN OxrFailed(store', call) ELSE BlueCheck(store', call)
    /\ UNCHANGED <<lastWrite, now, tasks, ret, http, call, store0>>

\* await oxr_client.fetch_and_store_rates(date_str) of line 40 raises
Oxr1Failed ==
    /\ pc = "oxr1"
    /\ prov' = Append(prov, [provider |-> "oxr", failed |-> TRUE])
    /\ OxrFailed(store, call)
    /\ UNCHANGED <<store, lastWrite, now, tasks, ret, http, call, store0>>

\* await dolar_scraper.scrape_and_store_ars_rates(date_str) returns
ScrapeStored(rates_data) ==
    /\ pc = "scrape"
    /\ store' = scrape_and_store_ars_rates(store, rates_data, now)
    /\ prov' = Append(prov, [provider |-> "ambito", failed |-> FALSE])
    /\ ReadAndProject(store', call)
    /\ UNCHANGED <<lastWrite, now, tasks, ret, http, call, store0>>

\* await dolar_scraper.scrape_and_store_ars_rates(date_str) raises
ScrapeFailedStep ==
    /\ pc = "scrape"
    /\ prov' = Append(prov, [provider |-> "ambito", failed |-> TRUE])
    /\ ScrapeFailed(store, call)
    /\ UNCHANGED <<store, lastWrite, now, tasks, ret, http, call, store0>>

\* the provider answers the fetch of line 114: fetch_and_store_rates stores
\* and returns, and usd_rates is read again; or it raises at an insert into
\* except Exception: pass, and usd_rates is still empty
Oxr2Stored(resp) ==
    /\ pc = "oxr2"
    /\ LET out == fetch_and_store_rates(store, call.date_str, resp, now, now)
       IN  /\ store' = out.store
           /\ prov' = Append(prov, [provider |-> "oxr", failed |-> out.raised])
    /\ LET usd_rates == get_all_rates_for_base(store', USD, call.date_str, call.rate_type)
       IN  IF DOMAIN usd_rates = {} \/ prov'[Len(prov')].failed
           THEN Return(loc.rates)
           ELSE Return(Update(loc.rates,
                              InterpolateTargets(loc.base_to_usd, usd_rates, loc.missing)))
    /\ UNCHANGED <<lastWrite, now, tasks, ret, http, call, store0>>

\* await oxr_client.fetch_and_store_rates(date_str) of line 114 raises:
\* except Exception: pass, and usd_rates is still empty
Oxr2Failed ==
    /\ pc = "oxr2"
    /\ prov' = Append(prov, [provider |-> "oxr", failed |-> TRUE])
    /\ Return(loc.rates)
    /\ UNCHANGED <<store, lastWrite, now, tasks, ret, http, call, store0>>

\* the caller takes the rates returned
Finish ==
    /\ pc = "done"
    /\ pc' = "idle"
    /\ call' = IdleCall
    /\ result' = <<>>
    /\ store0' = {}
    /\ prov' = <<>>
    /\ UNCHANGED <<store, lastWrite, now, tasks, ret, http, loc>>

-----------------------------------------------------------------------------
(* The resolver with its cache and its providers *)

MaxCached == 2

Currencies == {USD, ARS, EUR}

\* the keys of the records cached before a call
CacheKeys ==
    {<<f, t, Fri, rt>> : f \in Currencies, t \in Currencies, rt \in {"official", "blue"}}
        \ {<<c, c, Fri, rt>> : c \in Currencies, rt \in {"official", "blue"}}

CachePayloads == {<<Rat(2, 1), "test", 1>>, <<Rat(3, 1), "test", 1>>, <<Rat(0, 1), "test", 1>>}

\* the symbols lists of the calls
SymbolLists ==
    {<<>>, <<USD>>, <<ARS>>, <<EUR>>, <<ARS, EUR>>}

\* what the primary provider answers with status 200: all rates, a zero rate
\* for EUR alone, or a rate followed by a null one, dated with the requested
\* day or with the next one
OxrResponses ==
    {[rates |-> r, timestamp |-> ts] :
        r \in {<<<<USD, Rat(1, 1)>>, <<ARS, Rat(5, 1)>>, <<EUR, Rat(7, 1)>>>>,
               <<<<EUR, Rat(0, 1)>>>>,
               <<<<EUR, Rat(7, 1)>>, <<ARS, NoRate>>>>},
        ts \in {Fri, Sat}}

\* what the secondary provider answers: date -> <<compra, venta>>
AmbitoResponses ==
    {(Fri :> <<Rat(11, 1), Rat(13, 1)>>),
     (Fri :> <<Rat(11, 1), Rat(13, 1)>>) @@ (Sat :> <<Rat(17, 1), Rat(19, 1)>>),
     (Sat :> <<Rat(17, 1), Rat(19, 1)>>)}

\* a record is in the cache before the call: an earlier insert_rate
CachePut ==
    \E k \in CacheKeys, p \in CachePayloads :
        /\ pc = "idle" /\ ret.op = "none"
        /\ Cardinality(store) <= MaxCached
        /\ \/ \E r \in store : Key(r) = k
           \/ Cardinality(store) < MaxCached
        /\ store' = insert_rate(store, k[1], k[2], p[1], k[4], k[3], p[2], p[3])
        /\ UNCHANGED <<lastWrite, ret>>
        /\ UNCHANGED resolverVars

\* a call on a cache of at most MaxCached records
ResolveCall ==
    \E base \in Currencies, symbols \in SymbolLists, rate_type \in {NoType, "official", "blue"} :
        /\ Cardinality(store) <= MaxCached
        /\ GetRates(base, symbols, Fri, rate_type)

ResolveOxr1Stored == \E resp \in OxrResponses : Oxr1Stored(resp)

ResolveScrapeStored == \E rates_data \in AmbitoResponses : ScrapeStored(rates_data)

ResolveOxr2Stored == \E resp \in OxrResponses : Oxr2Stored(resp)

NextResolve ==
    \/ CachePut
    \/ ResolveCall
    \/ ResolveOxr1Stored
    \/ Oxr1Failed
    \/ ResolveScrapeStored
    \/ ScrapeFailedStep
    \/ ResolveOxr2Stored
    \/ Oxr2Failed
    \/ Finish

\* one caller resolving against a cache, the providers answering or failing
SpecResolve == Init /\ [][NextResolve]_vars

-----------------------------------------------------------------------------
(* The alternative-market ingestion on its own: dolar_scraper.py *)

\* the dates a batch can hold: a Thursday, its Friday, Saturday and Sunday
BatchDates == {Fri - 1, Fri, Sat, Sun}

\* the <<compra, venta>> pairs a batch can hold
Quotes == {<<Rat(11, 1), Rat(13, 1)>>, <<Rat(17, 1), Rat(19, 1)>>}

\* what fetch_historical_blue_rates returns when it returns data
Batches ==
    UNION {[dates -> Quotes] : dates \in (SUBSET BatchDates) \ {{}}}

\* scrape_and_store_ars_rates runs to its end on the batch rates_data
ScrapeAndStore(rates_data) ==
    /\ pc = "idle" /\ ret.op = "none"
    /\ store' = scrape_and_store_ars_rates(store, rates_data, now)
    /\ ret' = [op |-> "scrape_and_store_ars_rates", rates_data |-> rates_data,
               before |-> store]
    /\ UNCHANGED lastWrite
    /\ UNCHANGED resolverVars

\* if not rates_data: raise DolarScraperError("No rates found from ambito.com API")
ScrapeNoData ==
    /\ pc = "idle" /\ ret.op = "none"
    /\ ret' = [op |-> "DolarScraperError", before |-> store]
    /\ UNCHANGED <<store, lastWrite>>
    /\ UNCHANGED resolverVars

ScrapeBatch == \E rates_data \in Batches : ScrapeAndStore(rates_data)

NextScrape ==
    \/ ScrapeBatch
    \/ ScrapeNoData
    \/ Consume

\* batch after batch of the alternative-market provider
SpecScrape == Init /\ [][NextScrape]_vars

-----------------------------------------------------------------------------
(* The ingestions on their own, as the scheduler and the endpoint run them *)

\* the truth value Python gives an Optional[float]: None and 0.0 are false
Truthy(x) == x # NoRate /\ x[1] # 0

\* the rows fetch_historical_blue_rates keeps: if compra and venta.  rows is
\* date -> <<compra, venta>> as parse_rate_value returned them, None for a
\* text that is no number
fetch_historical_blue_rates(rows) ==
    [date \in {d \in DOMAIN rows : Truthy(rows[d][1]) /\ Truthy(rows[d][2])} |-> rows[date]]

\* datetime.utcnow().date()
Today == now

\* fetch_and_store_rates(date_str) runs on the response resp
FetchAndStoreRates(date_str, resp) ==
    /\ pc = "idle" /\ ret.op = "none"
    /\ LET out == fetch_and_store_rates(store, date_str, resp, now, Today)
       IN  /\ store' = out.store
           /\ ret' = [op |-> "fetch_and_store_rates", date_str |-> date_str,
                      resp |-> resp, before |-> store, raised |-> out.raised]
    /\ UNCHANGED lastWrite
    /\ UNCHANGED resolverVars

\* scrape_and_store_ars_rates runs on the rows the provider answered
ScrapeRows(rows) ==
    /\ pc = "idle" /\ ret.op = "none"
    /\ LET rates_data == fetch_historical_blue_rates(rows)
       IN  IF DOMAIN rates_data = {}
           THEN /\ store' = store
                /\ ret' = [op |-> "DolarScraperError", rows |-> rows, before |-> store]
           ELSE /\ store' = scrape_and_store_ars_rates(store, rates_data, now)
                /\ ret' = [op |-> "scrape_and_store_ars_rates", rates_data |-> rates_data,
                           rows |-> rows, before |-> store]
    /\ UNCHANGED lastWrite
    /\ UNCHANGED resolverVars

\* the items of the responses: valid ones, a zero, a negative or a null rate
\* before or after a valid one
IngestRates ==
    {<<<<USD, Rat(1, 1)>>, <<EUR, Rat(7, 1)>>>>,
     <<<<EUR, Rat(0, 1)>>, <<ARS, Rat(5, 1)>>>>,
     <<<<EUR, Rat(-7, 1)>>>>,
     <<<<EUR, Rat(7, 1)>>, <<ARS, NoRate>>>>,
     <<<<ARS, NoRate>>, <<EUR, Rat(7, 1)>>>>}

\* the responses of the primary provider: with a timestamp of a Saturday, or
\* with none
IngestResponses ==
    {[rates |-> r, timestamp |-> ts] : r \in IngestRates, ts \in {NoDate, Sat}}

\* the rows of the secondary provider for a Thursday and its Friday: a valid
\* pair, a zero, an unparsed and a negative value
IngestRows ==
    UNION {[dates -> {<<Rat(11, 1), Rat(13, 1)>>, <<Rat(0, 1), Rat(13, 1)>>,
                      <<NoRate, Rat(13, 1)>>, <<Rat(11, 1), Rat(-13, 1)>>}] :
           dates \in (SUBSET {Fri - 1, Fri}) \ {{}}}

IngestOxr ==
    \E date_str \in {NoDate, Fri}, resp \in IngestResponses :
        FetchAndStoreRates(date_str, resp)

IngestAmbito == \E rows \in IngestRows : ScrapeRows(rows)

NextIngest ==
    \/ IngestOxr
    \/ IngestAmbito
    \/ GetLatestRateDate
    \/ Consume

\* ingestion after ingestion, whatever the providers answer
SpecIngest == Init /\ [][NextIngest]_vars

-----------------------------------------------------------------------------
(* The /rates endpoint: main.py *)

\* if not date_str, taken for never true
NoDateKnownNever(date_str) == FALSE

\* if date_str is None (line 95), if not date_str (lines 98 and 101)
NoDateKnown(date_str) == date_str = NoDate

\* if not usd_rates, in ensure_rates_available(date_str)
EnsureNeedsFetch(st, date_str) ==
    DOMAIN get_all_rates_for_base(st, USD, date_str, NoType) = {}

\* rate_service.get_rates(base, symbol_list, date_str, rate_type) is entered
\* on store st and runs to its first await or to its return
EnterGetRates(st, c) ==
    /\ call' = c
    /\ store0' = st
    /\ prov' = <<>>
    /\ IF NeedsOxr(st, c.base, c.date_str)
       THEN Await("oxr1", NoLoc)
       ELSE BlueCheck(st, c)

\* the endpoint suspends in ensure_rates_available at the fetch of line 150
AwaitEnsure(label, c) ==
    /\ pc' = label
    /\ call' = c
    /\ store0' = store
    /\ prov' = <<>>
    /\ result' = <<>>
    /\ loc' = NoLoc

\* the endpoint answers
Answer(response) ==
    /\ pc' = "idle"
    /\ http' = response
    /\ call' = IdleCall
    /\ store0' = {}
    /\ prov' = <<>>
    /\ result' = <<>>
    /\ loc' = NoLoc

\* raise HTTPException(status_code=500, detail="No rates available")
NoRatesAvailable(backfill) ==
    Answer([at |-> "response", status_code |-> 500, query_date |-> NoDate,
            backfill |-> backfill])

\* lines 100 to 104: the latest date is read on store st after the backfill,
\* and the rates are resolved for it, or the request ends with an error
AfterBackfill(st) ==
    LET date_str == get_latest_rate_date(st)
    IN  IF NoDateKnown(date_str)
        THEN NoRatesAvailable(TRUE)
        ELSE /\ EnterGetRates(st, [call EXCEPT !.date_str = date_str])
             /\ http' = [at |-> "first", query_date |-> NoDate, backfill |-> TRUE]

\* GET /rates?base=..&symbols=..&date=..&rate_type=.. up to its first await
RatesRequest(base, symbol_list, date, rate_type) ==
    /\ pc = "idle" /\ ret.op = "none" /\ http.at = "none"
    /\ LET c == [base |-> base, symbols |-> symbol_list, date_str |-> date,
                 rate_type |-> rate_type]
           latest == get_latest_rate_date(store)
       IN  IF ~ NoDateKnown(date)
           THEN /\ EnterGetRates(store, c)
                /\ http' = [at |-> "first", query_date |-> date, backfill |-> FALSE]
           ELSE IF ~ NoDateKnown(latest)
           THEN /\ EnterGetRates(store, [c EXCEPT !.date_str = latest])
                /\ http' = [at |-> "first", query_date |-> date, backfill |-> FALSE]
           ELSE IF EnsureNeedsFetch(store, NoDate)
           THEN /\ AwaitEnsure("ensure", c)
                /\ http' = [at |-> "ensure", query_date |-> date, backfill |-> TRUE]
           ELSE NoRatesAvailable(FALSE)
    /\ UNCHANGED <<store, lastWrite, now, tasks, ret>>

\* the provider answers the fetch of ensure_rates_available(None):
\* fetch_and_store_rates stores, and returns or raises into line 151
EnsureStored(resp) ==
    /\ pc = "ensure"
    /\ store' = fetch_and_store_rates(store, NoDate, resp, now, Today).store
    /\ AfterBackfill(store')
    /\ UNCHANGED <<lastWrite, now, tasks, ret>>

\* the fetch of ensure_rates_available(None) raises: except of line 151
EnsureFailed ==
    /\ pc = "ensure"
    /\ AfterBackfill(store)
    /\ UNCHANGED <<store, lastWrite, now, tasks, ret>>

\* get_rates has returned: lines 106 to 115
Respond ==
    /\ pc = "done" /\ http.at \in {"first", "retry"}
    /\ IF DOMAIN result = {} /\ http.at = "first"
       THEN IF EnsureNeedsFetch(store, call.date_str)
            THEN /\ AwaitEnsure("ensure2", call)
                 /\ http' = [http EXCEPT !.at = "ensure2"]
            ELSE /\ EnterGetRates(store, call)
                 /\ http' = [http EXCEPT !.at = "retry"]
       ELSE Answer([at |-> "response", status_code |-> 200, base |-> call.base,
                    date |-> call.date_str, rates |-> result,
                    query_date |-> http.query_date, backfill |-> http.backfill])
    /\ UNCHANGED <<store, lastWrite, now, tasks, ret>>

\* the provider answers the fetch of ensure_rates_available(date_str) of
\* line 108, and get_rates is called again
Ensure2Stored(resp) ==
    /\ pc = "ensure2"
    /\ store' = fetch_and_store_rates(store, call.date_str, resp, now, Today).store
    /\ EnterGetRates(store', call)
    /\ http' = [http EXCEPT !.at = "retry"]
    /\ UNCHANGED <<lastWrite, now, tasks, ret>>

\* the fetch of line 108 raises, and get_rates is called again
Ensure2Failed ==
    /\ pc = "ensure2"
    /\ EnterGetRates(store, call)
    /\ http' = [http EXCEPT !.at = "retry"]
    /\ UNCHANGED <<store, lastWrite, now, tasks, ret>>

\* the client has the response
Responded ==
    /\ http.at = "response"
    /\ http' = [at |-> "none"]
    /\ UNCHANGED <<store, lastWrite, now, tasks, ret, pc, call, loc, result, store0, prov>>

\* the records in the store before a request: key and rate
EndpointSeeds ==
    {<<<<USD, EUR, Fri, "official">>, Rat(2, 1)>>,
     <<<<EUR, USD, Fri, "blue">>, Rat(2, 1)>>,
     <<<<USD, EUR, Fri, "blue">>, Rat(0, 1)>>,
     <<<<USD, ARS, Sat, "blue">>, Rat(2, 1)>>}

\* a record is in the store before the request: an earlier insert_rate
EndpointPut ==
    \E seed \in EndpointSeeds :
        /\ pc = "idle" /\ ret.op = "none" /\ http.at = "none"
        /\ Cardinality(store) < MaxCached
        /\ LET k == seed[1]
           IN  store' = insert_rate(store, k[1], k[2], seed[2], k[4], k[3], "test", 1)
        /\ UNCHANGED <<lastWrite, ret>>
        /\ UNCHANGED resolverVars

\* a request on a store of at most MaxCached records
EndpointRequest ==
    \E base \in {USD, EUR}, symbol_list \in {<<>>, <<EUR>>}, date \in {NoDate, Fri},
       rate_type \in {NoType, "official"} :
        /\ Cardinality(store) <= MaxCached
        /\ RatesRequest(base, symbol_list, date, rate_type)

\* what the primary provider answers to the backfill of an empty store: as to
\* any fetch, or with the rate of USD alone
EnsureResponses ==
    OxrResponses \cup {[rates |-> <<<<USD, Rat(1, 1)>>>>, timestamp |-> Sat]}

EndpointEnsureStored == \E resp \in EnsureResponses : EnsureStored(resp)

EndpointEnsure2Stored == \E resp \in OxrResponses : Ensure2Stored(resp)

NextEndpoint ==
    \/ EndpointPut
    \/ EndpointRequest
    \/ EndpointEnsureStored
    \/ EnsureFailed
    \/ ResolveOxr1Stored
    \/ Oxr1Failed
    \/ ResolveScrapeStored
    \/ ScrapeFailedStep
    \/ ResolveOxr2Stored
    \/ Oxr2Failed
    \/ Respond
    \/ EndpointEnsure2Stored
    \/ Ensure2Failed
    \/ Responded

\* one request after another at the /rates endpoint
SpecEndpoint == Init /\ [][NextEndpoint]_vars

-----------------------------------------------------------------------------------------------------------------------------------------------------
(* Concurrent writers on the shared store: get_rates' backfill, the refresh *)
(* job of scheduler.py and direct insert_rate calls, each insert_rate being *)
(* one INSERT OR REPLACE with its own commit                                *)

\* one call of insert_rate: its key and the rest of its arguments
InsertCall(f, t, rate, rt, d, src, fa) ==
    [key |-> <<f, t, d, rt>>, payload |-> <<rate, src, fa>>]

\* the insert_rate calls the loop of fetch_and_store_rates makes from the
\* i-th item on, in order, up to the one that raises
RECURSIVE OxrInserts(_, _, _, _)
OxrInserts(rates, i, target_date, fetched_at) ==
    IF i > Len(rates) THEN <<>>
    ELSE LET currency == rates[i][1]
             rate == rates[i][2]
         IN  IF currency = USD
             THEN OxrInserts(rates, i + 1, target_date, fetched_at)
             ELSE IF RateIsNull(rate)
             THEN <<>>
             ELSE <<InsertCall(USD, currency, rate, "official", target_date,
                               "openexchangerates", fetched_at)>>
                    \o OxrInserts(rates, i + 1, target_date, fetched_at)

\* the insert_rate calls of the first loop of scrape_and_store_ars_rates
RECURSIVE BlueInserts(_, _, _)
BlueInserts(rates_data, todo, fetched_at) ==
    IF todo = {} THEN <<>>
    ELSE LET date == CHOOSE d \in todo : TRUE
             compra == rates_data[date][1]
             venta == rates_data[date][2]
         IN  <<InsertCall(USD, ARS, compra, "blue", date, "ambito", fetched_at),
               InsertCall(ARS, USD, Inv(venta), "blue", date, "ambito", fetched_at)>>
                \o BlueInserts(rates_data, todo \ {date}, fetched_at)

\* the insert_rate calls of the second loop of scrape_and_store_ars_rates
RECURSIVE WeekendInserts(_, _, _)
WeekendInserts(rates_data, todo, fetched_at) ==
    IF todo = {} THEN <<>>
    ELSE LET date == CHOOSE d \in todo : TRUE
             compra == rates_data[date][1]
             venta == rates_data[date][2]
             copies ==
                IF IsFriday(date)
                THEN <<InsertCall(USD, ARS, compra, "blue", date + 1, "ambito (weekend)", fetched_at),
                       InsertCall(ARS, USD, Inv(venta), "blue", date + 1, "ambito (weekend)", fetched_at),
                       InsertCall(USD, ARS, compra, "blue", date + 2, "ambito (weekend)", fetched_at),
                       InsertCall(ARS, USD, Inv(venta), "blue", date + 2, "ambito (weekend)", fetched_at)>>
                ELSE <<>>
         IN  copies \o WeekendInserts(rates_data, todo \ {date}, fetched_at)

\* the insert_rate calls of scrape_and_store_ars_rates, in order
ScrapeInserts(rates_data, fetched_at) ==
    BlueInserts(rates_data, DOMAIN rates_data, fetched_at)
        \o WeekendInserts(rates_data, DOMAIN rates_data, fetched_at)

\* the writers running at the same time
Writers == {"get_rates", "fetch_daily_rates", "insert_rate"}

\* writer w has its insert_rate calls ahead of it
Begin(w, inserts) ==
    /\ http.at = "none" /\ pc = "idle" /\ ret.op = "none"
    /\ IF w \in DOMAIN tasks THEN tasks[w].pending = <<>> ELSE TRUE
    /\ inserts # <<>>
    /\ tasks' = [x \in DOMAIN tasks \cup {w} |->
                    IF x = w THEN [pending |-> inserts, written |-> <<>>] ELSE tasks[x]]
    /\ UNCHANGED <<store, lastWrite, now, ret, pc, call, loc, result, store0, prov, http>>

\* what the primary provider answers the concurrent writers
WriterOxrResponses ==
    {[rates |-> <<<<USD, Rat(1, 1)>>, <<ARS, Rat(5, 1)>>, <<EUR, Rat(7, 1)>>>>, timestamp |-> Fri],
     [rates |-> <<<<ARS, Rat(6, 1)>>, <<EUR, NoRate>>>>, timestamp |-> Fri],
     [rates |-> <<<<ARS, Rat(6, 1)>>>>, timestamp |-> NoDate]}

\* what the secondary provider answers the refresh job
WriterBatches ==
    {(Fri :> <<Rat(11, 1), Rat(13, 1)>>),
     (Fri :> <<Rat(11, 1), Rat(13, 1)>>) @@ (Sat :> <<Rat(17, 1), Rat(19, 1)>>)}

\* the direct upserts made meanwhile
WriterUpserts ==
    {InsertCall(USD, ARS, Rat(2, 1), "official", Fri, "test", 1),
     InsertCall(USD, ARS, Rat(3, 1), "blue", Sat, "test", 1),
     InsertCall(EUR, ARS, Rat(3, 1), "official", Fri, "test", 1)}

\* a get_rates call with base USD backfills the date: the provider has
\* answered and the loop of fetch_and_store_rates starts
BackfillBegins ==
    \E resp \in WriterOxrResponses :
        Begin("get_rates", OxrInserts(resp.rates, 1, OxrTargetDate(Fri, resp, Today), now))

\* fetch_daily_rates: the inserts of its fetch_and_store_rates() and then of
\* its scrape_and_store_ars_rates()
RefreshBegins ==
    \E resp \in WriterOxrResponses, rates_data \in WriterBatches :
        Begin("fetch_daily_rates",
              OxrInserts(resp.rates, 1, OxrTargetDate(NoDate, resp, Today), now)
                  \o ScrapeInserts(rates_data, now))

\* a client calls insert_rate
UpsertBegins == \E i \in WriterUpserts : Begin("insert_rate", <<i>>)

\* the next insert_rate of writer w runs: INSERT OR REPLACE, commit
WriteNext(w) ==
    /\ w \in DOMAIN tasks /\ tasks[w].pending # <<>>
    /\ LET i == Head(tasks[w].pending)
           k == i.key
           p == i.payload
       IN  /\ store' = insert_rate(store, k[1], k[2], p[1], k[4], k[3], p[2], p[3])
           /\ lastWrite' = [x \in DOMAIN lastWrite \cup {k} |->
                               IF x = k THEN p ELSE lastWrite[x]]
           /\ tasks' = [tasks EXCEPT ![w] = [pending |-> Tail(tasks[w].pending),
                                             written |-> Append(tasks[w].written, i)]]
    /\ UNCHANGED <<now, ret, pc, call, loc, result, store0, prov, http>>

Write == \E w \in Writers : WriteNext(w)

NextWriters ==
    \/ BackfillBegins
    \/ RefreshBegins
    \/ UpsertBegins
    \/ Write

\* the writers of the program running concurrently on the store
SpecWriters == Init /\ [][NextWriters]_vars

-----------------------------------------------------------------------------
(* The event loop: coroutines of get_rates and the refresh job taking turns *)
(* at their awaits, each running from one await to the next without any     *)
(* other coroutine in between.  The records stored carry positive rates, so *)
(* that no coroutine reaches the await of _interpolate_via_usd.             *)

\* what a coroutine keeps while another one runs
Context ==
    [pc |-> pc, call |-> call, loc |-> loc, result |-> result,
     store0 |-> store0, prov |-> prov]

\* a coroutine not started
IdleContext ==
    [pc |-> "idle", call |-> IdleCall, loc |-> NoLoc, result |-> <<>>,
     store0 |-> {}, prov |-> <<>>]

\* the loop is running
Looping == DOMAIN tasks = {"data", "parked"}

\* the records stored before the coroutines start
LoopSeeds ==
    {<<<<USD, ARS, Fri, "blue">>, Rat(2, 1)>>,
     <<<<ARS, USD, Fri, "blue">>, Rat(1, 3)>>}

\* what the two providers hold for the period, and answer whenever asked
LoopData ==
    {[oxr |-> o, ambito |-> a] :
        o \in {[rates |-> <<<<USD, Rat(1, 1)>>, <<ARS, Rat(5, 1)>>, <<EUR, Rat(7, 1)>>>>,
                timestamp |-> Fri],
               [rates |-> <<<<EUR, Rat(7, 1)>>, <<ARS, NoRate>>>>, timestamp |-> Fri]},
        a \in {(Fri :> <<Rat(11, 1), Rat(13, 1)>>),
               (Fri :> <<Rat(11, 1), Rat(13, 1)>>) @@ (Sat :> <<Rat(17, 1), Rat(19, 1)>>)}}

\* the application starts: the store as it was left, the providers' data as
\* they are
LoopStart ==
    /\ tasks = <<>> /\ pc = "idle" /\ ret.op = "none" /\ http.at = "none"
    /\ store = {}
    /\ \E seeds \in SUBSET LoopSeeds, data \in LoopData :
          /\ Cardinality(seeds) <= 1
          /\ store' = {Row(s[1][1], s[1][2], s[2], s[1][4], s[1][3], "test", 1) : s \in seeds}
          /\ tasks' = [data |-> data, parked |-> IdleContext]
    /\ UNCHANGED <<lastWrite, now, ret, pc, call, loc, result, store0, prov, http>>

\* the clock goes on
MaxClock == 1

Tick ==
    /\ Looping /\ now < MaxClock
    /\ now' = now + 1
    /\ UNCHANGED <<store, lastWrite, ret, pc, call, loc, result, store0, prov, http, tasks>>

\* the running coroutine is suspended at an await, has returned or has not
\* started, and the loop resumes the other one
Switch ==
    /\ Looping
    /\ tasks' = [tasks EXCEPT !.parked = Context]
    /\ pc' = tasks.parked.pc
    /\ call' = tasks.parked.call
    /\ loc' = tasks.parked.loc
    /\ result' = tasks.parked.result
    /\ store0' = tasks.parked.store0
    /\ prov' = tasks.parked.prov
    /\ UNCHANGED <<store, lastWrite, now, ret, http>>

\* a request calls get_rates
LoopCall ==
    \E base \in {USD, ARS}, symbols \in {<<>>, <<USD>>}, rate_type \in {NoType, "blue"} :
        /\ Looping
        /\ GetRates(base, symbols, Fri, rate_type)

\* the scheduler starts fetch_daily_rates, which awaits
\* fetch_and_store_rates()
RefreshStart ==
    /\ Looping /\ pc = "idle" /\ tasks.parked.pc \notin {"job_oxr", "job_scrape", "job_done"}
    /\ pc' = "job_oxr"
    /\ UNCHANGED <<store, lastWrite, now, ret, call, loc, result, store0, prov, http, tasks>>

\* fetch_and_store_rates() of the job stores, or raises into the job's except
RefreshOxrStored ==
    /\ Looping /\ pc = "job_oxr"
    /\ store' = fetch_and_store_rates(store, NoDate, tasks.data.oxr, now, Today).store
    /\ pc' = "job_scrape"
    /\ UNCHANGED <<lastWrite, now, ret, call, loc, result, store0, prov, http, tasks>>

\* fetch_and_store_rates() of the job raises before it stores
RefreshOxrFailed ==
    /\ Looping /\ pc = "job_oxr"
    /\ pc' = "job_scrape"
    /\ UNCHANGED <<store, lastWrite, now, ret, call, loc, result, store0, prov, http, tasks>>

\* scrape_and_store_ars_rates() of the job stores its batch, and the job ends
RefreshScrapeStored ==
    /\ Looping /\ pc = "job_scrape"
    /\ store' = scrape_and_store_ars_rates(store, tasks.data.ambito, now)
    /\ pc' = "job_done"
    /\ UNCHANGED <<lastWrite, now, ret, call, loc, result, store0, prov, http, tasks>>

\* scrape_and_store_ars_rates() of the job raises, and the job ends
RefreshScrapeFailed ==
    /\ Looping /\ pc = "job_scrape"
    /\ pc' = "job_done"
    /\ UNCHANGED <<store, lastWrite, now, ret, call, loc, result, store0, prov, http, tasks>>

LoopOxr1Stored == Looping /\ Oxr1Stored(tasks.data.oxr)

LoopOxr1Failed == Looping /\ Oxr1Failed

LoopScrapeStored == Looping /\ ScrapeStored(tasks.data.ambito)

LoopScrapeFailed == Looping /\ ScrapeFailedStep

NextLoop ==
    \/ LoopStart
    \/ Tick
    \/ Switch
    \/ LoopCall
    \/ RefreshStart
    \/ RefreshOxrStored
    \/ RefreshOxrFailed
    \/ RefreshScrapeStored
    \/ RefreshScrapeFailed
    \/ LoopOxr1Stored
    \/ LoopOxr1Failed
    \/ LoopScrapeStored
    \/ LoopScrapeFailed

\* two coroutines on one event loop and one store
SpecLoop == Init /\ [][NextLoop]_vars

-----
(* Claims on the store *)

StoredRows(f, t, d, rt) == {r \in store : Key(r) = <<f, t, d, rt>>}

BothStored(a, b, d, rt) == StoredRows(a, b, d, rt) # {} /\ StoredRows(b, a, d, rt) # {}

Ranked == <<"official", "blue", "mep", "ccl">>
RankOf(rt) ==
    IF \E i \in 1..Len(Ranked) : Ranked[i] = rt
    THEN CHOOSE i \in 1..Len(Ranked) : Ranked[i] = rt
    ELSE Len(Ranked) + 1

C4_AsClaimed ==
    LET rev == {e \in store : /\ e.from_currency = ret.to_currency
                              /\ e.to_currency = ret.from_currency
                              /\ e.date = ret.date /\ Positive(e.rate)
                              /\ ret.rate_type \in {NoType, e.rate_type}}
    IN  ( /\ ret.op = "get_rate"
          /\ ~ \E r \in store : /\ r.from_currency = ret.from_currency
                                /\ r.to_currency = ret.to_currency /\ r.date = ret.date
          /\ rev # {} )
        => \E e \in rev : /\ ret.value = Inv(e.rate)
                          /\ \A q \in rev : RankOf(e.rate_type) <= RankOf(q.rate_type)

\* C4 amended: get_rate reads the stored rows of the requested direction only.
\* When no row is stored for (from,to,date) under the requested classification
\* (any classification, when it is omitted), get_rate returns None, also when
\* the reversed record is stored.
C4_DirectOnly ==
    ( /\ ret.op = "get_rate"
      /\ ~ \E r \in store : /\ r.from_currency = ret.from_currency
                            /\ r.to_currency = ret.to_currency /\ r.date = ret.date
                            /\ ret.rate_type \in {NoType, r.rate_type} )
    => ret.value = NoRate

\* C4 witness: only USD->ARS blue = 2 is stored, and get_rate(ARS, USD) has
\* returned None with blue asked for
C4_Witness ==
    /\ \E e \in store : Key(e) = <<USD, ARS, Fri, "blue">> /\ e.rate = Rat(2, 1)
    /\ ~ \E e \in store : e.from_currency = ARS
    /\ ret.op = "get_rate" /\ ret.from_currency = ARS /\ ret.rate_type = "blue"
    /\ ret.value = NoRate

\* C7: idempotent upsert.  After any sequence of insert_rate calls the store
\* holds, for every key ever written, exactly one row, and its rate, source and
\* fetched_at are those of the most recent insert_rate for that key; it holds
\* no other row.  (Rows of other keys are thereby those of their own last write.)
C7_IdempotentUpsert ==
    /\ \A k \in DOMAIN lastWrite :
          {r \in store : Key(r) = k}
              = {Row(k[1], k[2], lastWrite[k][1], k[4], k[3], lastWrite[k][2], lastWrite[k][3])}
    /\ \A r \in store : Key(r) \in DOMAIN lastWrite

\* C7 witness: an insert_rate has just replaced a row of its key that carried
\* another rate, while a row of another key is stored
C7_Witness ==
    /\ ret.op = "insert_rate"
    /\ \E old \in ret.replaced : \E new \in store :
          Key(new) = ret.key /\ new.rate # old.rate /\ new.fetched_at # old.fetched_at
    /\ \E r \in store : Key(r) # ret.key

-----------------------------------------------------------------------------
(* Claims on the resolver *)

\* the records cached when get_rates was called
CachedRows(f, t, d, rt) == {r \in store0 : Key(r) = <<f, t, d, rt>>}

\* the rate of the one record stored in st under a key
RateOf(st, f, t, d, rt) == (CHOOSE r \in st : Key(r) = <<f, t, d, rt>>).rate

\* what the view of st holds for f -> t on d: classification -> rate
Leg(st, f, t, d, rate_type) ==
    LET rows == {v \in exchange_rates_bidirectional(st) :
                    /\ v.from_currency = f /\ v.to_currency = t /\ v.date = d
                    /\ (rate_type = NoType \/ v.rate_type = rate_type)}
    IN  [cls \in {v.rate_type : v \in rows} |->
            (CHOOSE v \in rows : v.rate_type = cls).rate]

\* the classifications of the pivot B -> USD -> T, each with its product
Pivot(st, b, t, d, rate_type) ==
    LET l1 == Leg(st, b, USD, d, rate_type)
        l2 == Leg(st, USD, t, d, rate_type)
    IN  [cls \in DOMAIN l1 \cap DOMAIN l2 |-> Mul(l1[cls], l2[cls])]

\* the currencies a call asks for
Requested(c) ==
    IF c.symbols = <<>> THEN Currencies ELSE {c.symbols[i] : i \in 1..Len(c.symbols)}

\* C1 as claimed: inverse correctness.  When get_rates(B, [A], date, cls)
\* returns, if the store held (A,B,date,cls) with rate r and no (B,A,date,cls)
\* when it was called, the result has A under cls equal to 1/r, for every pair
\* and whatever the providers answered meanwhile.
C1_InverseCorrectness ==
    pc = "done" =>
        \A A \in Currencies, B \in Currencies, cls \in {"official", "blue"} :
            ( /\ call.base = B /\ call.symbols = <<A>> /\ call.rate_type = cls
              /\ CachedRows(A, B, call.date_str, cls) # {}
              /\ Positive(RateOf(store0, A, B, call.date_str, cls))
              /\ CachedRows(B, A, call.date_str, cls) = {} )
            => /\ A \in DOMAIN result
               /\ cls \in DOMAIN result[A]
               /\ result[A][cls] = Inv(RateOf(store0, A, B, call.date_str, cls))

\* every record cached at the call carries a positive rate
CachedPositive == \A r \in store0 : Positive(r.rate)

C6_FanOut ==
    pc = "done" =>
        \A A \in Currencies, B \in Currencies :
            LET d == call.date_str
                stored == {cls \in RateTypes : CachedRows(A, B, d, cls) # {}}
            IN  ( /\ Cardinality(stored) > 1
                  /\ \A cls \in stored : Positive(RateOf(store0, A, B, d, cls))
                  /\ \A cls \in RateTypes : CachedRows(B, A, d, cls) = {} )
                => /\ (call.base = A /\ call.symbols = <<B>> /\ call.rate_type = NoType)
                        => /\ B \in DOMAIN result
                           /\ \A cls \in stored :
                                /\ cls \in DOMAIN result[B]
                                /\ result[B][cls] = RateOf(store0, A, B, d, cls)
                   /\ (call.base = B /\ call.symbols = <<A>> /\ call.rate_type = NoType)
                        => /\ A \in DOMAIN result
                           /\ \A cls \in stored :
                                /\ cls \in DOMAIN result[A]
                                /\ result[A][cls] = Inv(RateOf(store0, A, B, d, cls))
                   /\ (call.base = A /\ call.symbols = <<B>> /\ call.rate_type \in stored)
                        => /\ B \in DOMAIN result
                           /\ DOMAIN result[B] = {call.rate_type}

\* every provider invoked during the call raised
AllProvidersFailed == \A i \in 1..Len(prov) : prov[i].failed

\* the requested currencies resolvable from the store st: by the view's
\* direct or inverse entry, else, for a named target, by the pivot
Resolvable(st, c) ==
    LET entry(T) == Leg(st, c.base, T, c.date_str, c.rate_type)
        pivot(T) == Pivot(st, c.base, T, c.date_str, c.rate_type)
        found == {T \in Requested(c) :
                    \/ DOMAIN entry(T) # {}
                    \/ c.symbols # <<>> /\ DOMAIN pivot(T) # {}}
    IN  [T \in found |-> IF DOMAIN entry(T) # {} THEN entry(T) ELSE pivot(T)]

\* C10 as claimed: graceful degradation.  get_rates never raises; and when
\* every provider call made during a get_rates call raised, it returns with
\* the store as it was at the call and with exactly the requested currencies
\* resolvable from the cached records (direct, inverse or pivot), the others
\* omitted.
C10_GracefulDegradation ==
    /\ pc # "raised"
    /\ (pc = "done" /\ AllProvidersFailed) =>
            /\ store = store0
            /\ result = Resolvable(store0, call)

\* C14: pivot interpolation never overrides a directly-available rate.  When
\* get_rates returns, every requested target that get_all_rates_for_base(base,
\* date, classification) held when get_rates read it is in the result with
\* exactly that mapping; interpolation fills only the targets it did not hold.
C14_NoOverride ==
    [][ (pc # "done" /\ pc' = "done") =>
            LET read == IF pc = "oxr2" THEN store ELSE store'
            IN  \A T \in Requested(call') :
                    LET entry == Leg(read, call'.base, T, call'.date_str, call'.rate_type)
                    IN  DOMAIN entry # {} =>
                            T \in DOMAIN result' /\ result'[T] = entry ]_vars

\* a target returned with its own entry although the pivot gives another
\* value, in a call that interpolated a second target
C14_Witness ==
    /\ pc = "done"
    /\ \E T \in Requested(call), T2 \in Requested(call) :
        LET entry == Leg(store, call.base, T, call.date_str, call.rate_type)
            pivot == Pivot(store, call.base, T, call.date_str, call.rate_type)
        IN  /\ DOMAIN entry # {} /\ DOMAIN pivot # {}
            /\ \E cls \in DOMAIN entry \cap DOMAIN pivot : entry[cls] # pivot[cls]
            /\ T \in DOMAIN result /\ result[T] = entry
            /\ DOMAIN Leg(store, call.base, T2, call.date_str, call.rate_type) = {}
            /\ T2 \in DOMAIN result

\* C15: no classification fallback.  When get_rates called with an explicit
\* classification cls returns, every target of the result carries cls and no
\* other classification; a target with rates under other classifications only
\* is not in the result.
C15_NoFallback ==
    (pc = "done" /\ call.rate_type # NoType) =>
        \A T \in DOMAIN result : DOMAIN result[T] = {call.rate_type}

\* a requested target the view holds under another classification only,
\* omitted
C15_Witness ==
    /\ pc = "done" /\ call.rate_type # NoType
    /\ \E T \in Requested(call) :
        /\ DOMAIN Leg(store, call.base, T, call.date_str, NoType) # {}
        /\ DOMAIN Leg(store, call.base, T, call.date_str, call.rate_type) = {}
        /\ T \notin DOMAIN result
    /\ DOMAIN result # {}

-----------------------------------------------------------------------------
(* Claims on the alternative-market ingestion *)

\* the batch has run to its end
Scraped == ret.op = "scrape_and_store_ars_rates"

\* the Fridays of the batch
BatchFridays == {f \in DOMAIN ret.rates_data : weekday(f) = Fri}

\* the two directions of the pair the scraper stores
BluePairs == {<<USD, ARS>>, <<ARS, USD>>}

\* C8: weekend carry.  After scrape_and_store_ars_rates has run on a batch,
\* for every Friday f of the batch the store holds blue USD -> ARS and
\* ARS -> USD records dated f+1 and f+2 with the rates stored for f and the
\* source "ambito (weekend)"; a record the batch wrote with that source is
\* dated the Saturday or the Sunday of a Friday of the batch.
C8_WeekendCarry ==
    Scraped =>
        /\ \A f \in BatchFridays, p \in BluePairs : \A d \in {f + 1, f + 2} :
            /\ StoredRows(p[1], p[2], f, "blue") # {}
            /\ \E r \in StoredRows(p[1], p[2], d, "blue") :
                /\ r.rate = RateOf(store, p[1], p[2], f, "blue")
                /\ r.source = "ambito (weekend)"
        /\ \A r \in store \ ret.before :
            r.source = "ambito (weekend)" =>
                \E f \in BatchFridays : r.date \in {f + 1, f + 2}

\* a batch with a Friday and a day that is not one
C8_Witness ==
    /\ Scraped
    /\ BatchFridays # {}
    /\ DOMAIN ret.rates_data \ BatchFridays # {}
    /\ \E r \in store : r.source = "ambito (weekend)"

\* C9 as claimed: weekend copies do not overwrite a direct record.  After a
\* batch, a direct blue record for a Saturday or Sunday that the batch itself
\* delivered, or that was stored before the batch and is not in it, is still
\* the stored record of its key: same rate, same source.
C9_CopiesKeepDirect ==
    Scraped =>
        \A p \in BluePairs, d \in {x \in BatchDates : weekday(x) \in {Sat, Sun}} :
            /\ d \in DOMAIN ret.rates_data =>
                \E r \in StoredRows(p[1], p[2], d, "blue") :
                    /\ r.source = "ambito"
                    /\ r.rate = IF p[1] = USD THEN ret.rates_data[d][1]
                                ELSE Inv(ret.rates_data[d][2])
            /\ d \notin DOMAIN ret.rates_data =>
                \A r \in ret.before :
                    (Key(r) = <<p[1], p[2], d, "blue">> /\ r.source = "ambito")
                        => r \in store

\* C16 as claimed: buy and sell are stored as two direct records.  After a
\* batch, every date of the batch has the blue records USD -> ARS = compra and
\* ARS -> USD = 1 / venta of that date, and the blue rates of base ARS on that
\* date give USD as 1 / venta, not as the reciprocal of compra.
C16_BuySellStored ==
    Scraped =>
        \A d \in DOMAIN ret.rates_data :
            LET compra == ret.rates_data[d][1]
                venta == ret.rates_data[d][2]
                blue == get_all_rates_for_base(store, ARS, d, "blue")
            IN  /\ \E r \in StoredRows(USD, ARS, d, "blue") : r.rate = compra
                /\ \E r \in StoredRows(ARS, USD, d, "blue") : r.rate = Inv(venta)
                /\ USD \in DOMAIN blue
                /\ blue[USD]["blue"] = Inv(venta)

-----------------------------------------------------------------------------
(* Claims on the ingestions *)

\* a rate the specification lets into the store: present and positive
ValidRate(x) == x # NoRate /\ Positive(x)

\* a primary ingestion has run on a response
Ingested == ret.op = "fetch_and_store_rates"

\* a secondary ingestion has run on the provider's rows, to its end or not
RowsScraped == ret.op \in {"scrape_and_store_ars_rates", "DolarScraperError"} /\ "rows" \in DOMAIN ret

\* C11 as claimed: every record of the store carries a present, strictly
\* positive rate, in every state that primary and secondary ingestions reach,
\* whatever the providers return.
C11_PositiveRates == \A r \in store : ValidRate(r.rate)

\* C12 as claimed: invalid rates are discarded silently per entry.  When a
\* response holds a null or non-positive rate among valid ones, the ingestion
\* raises nothing, stores every valid entry of the batch and writes no row
\* with an invalid rate.
C12_InvalidSkipped ==
    /\ Ingested =>
        LET items == ret.resp.rates
            valid == {i \in 1..Len(items) : items[i][1] # USD /\ ValidRate(items[i][2])}
        IN  valid # {} =>
                /\ ~ ret.raised
                /\ \A i \in valid :
                    \E r \in store : /\ r.from_currency = USD
                                     /\ r.to_currency = items[i][1]
                                     /\ r.rate_type = "official"
                                     /\ r.rate = items[i][2]
                /\ \A r \in store \ ret.before : ValidRate(r.rate)
    /\ RowsScraped =>
        LET valid == {d \in DOMAIN ret.rows :
                        ValidRate(ret.rows[d][1]) /\ ValidRate(ret.rows[d][2])}
        IN  valid # {} =>
                /\ ret.op # "DolarScraperError"
                /\ \A d \in valid :
                    /\ \E r \in StoredRows(USD, ARS, d, "blue") : r.rate = ret.rows[d][1]
                    /\ \E r \in StoredRows(ARS, USD, d, "blue") : r.rate = Inv(ret.rows[d][2])
                /\ \A r \in store \ ret.before : ValidRate(r.rate)

\* the items of a response that fetch_and_store_rates reaches: those before
\* the first null rate of a currency other than USD
Reached(items) ==
    {i \in 1..Len(items) :
        \A j \in 1..i : items[j][1] = USD \/ items[j][2] # NoRate}

C17_LatestDate ==
    ret.op = "get_latest_rate_date" =>
        /\ ret.value = NoDate <=> store = {}
        /\ store # {} =>
            /\ \E r \in store : r.date = ret.value
            /\ \A r \in store : r.date <= ret.value

\* the latest date is the one of weekend copies alone, in a store holding
\* official and blue records
C17_Witness ==
    /\ ret.op = "get_latest_rate_date"
    /\ \E r \in store : r.date = ret.value /\ r.source = "ambito (weekend)"
    /\ \A r \in store : r.date = ret.value => r.source = "ambito (weekend)"
    /\ \E r \in store : r.rate_type = "official" /\ r.date < ret.value

-----------------------------------------------------------------------------
(* Claims on the endpoint *)

\* the endpoint is inside a resolution for a date
Resolving(h) == h.at \in {"first", "ensure2", "retry"}

-----------------------------------------------------------------------------
(* Claims on the reads and on the growth of the store *)

ReadOps == {"get_rate", "get_all_rates_for_base", "get_latest_rate_date"}

\* C19: the store's read operations only read.  A call of get_rate,
\* get_all_rates_for_base or get_latest_rate_date leaves the stored records
\* as they are and invokes no provider, and it returns None (an empty
\* mapping for get_all_rates_for_base) when the pair, date or classification
\* asked for is not stored.
C19_ReadsOnlyRead ==
    [][ (ret.op = "none" /\ ret'.op \in ReadOps) =>
            /\ store' = store
            /\ prov' = prov /\ pc' = "idle" /\ pc = "idle"
            /\ ret'.op = "get_rate" =>
                ((~ \E r \in store :
                        /\ r.from_currency = ret'.from_currency
                        /\ r.to_currency = ret'.to_currency
                        /\ r.date = ret'.date
                        /\ (ret'.rate_type = NoType \/ r.rate_type = ret'.rate_type))
                    => ret'.value = NoRate)
            /\ ret'.op = "get_all_rates_for_base" =>
                ((~ \E r \in store :
                        /\ ret'.base \in {r.from_currency, r.to_currency}
                        /\ r.date = ret'.date
                        /\ (ret'.rate_type = NoType \/ r.rate_type = ret'.rate_type))
                    => DOMAIN ret'.value = {})
            /\ ret'.op = "get_latest_rate_date" =>
                (store = {} => ret'.value = NoDate) ]_vars

\* get_rate has answered None for a classification that is not stored, the
\* pair being stored under another one
C19_Witness ==
    /\ ret.op = "get_rate" /\ ret.value = NoRate /\ ret.rate_type # NoType
    /\ \E r \in store : /\ r.from_currency = ret.from_currency
                         /\ r.to_currency = ret.to_currency
                         /\ r.date = ret.date

\* C20: records are never deleted.  A key (from, to, date, classification)
\* that is in the store is in the store after every step, whether an upsert,
\* an ingestion or a step of a resolve; only the rest of its row changes.
C20_NeverDeleted ==
    [][ \A r \in store : \E q \in store' : Key(q) = Key(r) ]_vars

\* a resolve has replaced the rate of a cached record, among other records
\* it kept
C20_Witness ==
    /\ pc = "done"
    /\ \E r \in store0 : /\ r \notin store
                          /\ \E q \in store : Key(q) = Key(r) /\ q.rate # r.rate
    /\ \E r \in store0 : r \in store

-----------------------------------------------------------------------------
(* Claims on the backfill triggers of the resolver *)

\* the records of the USD/ARS pair stored under blue for date d, in either
\* direction
BlueUsdArs(st, d) ==
    {r \in st : /\ r.rate_type = "blue" /\ r.date = d
                /\ {r.from_currency, r.to_currency} = {USD, ARS}}

\* C21 as claimed: secondary backfill trigger.  get_rates invokes the
\* secondary provider only when the base or a requested target is USD or ARS
\* and no blue USD/ARS record is stored for the date in either direction;
\* with such a record stored it does not invoke it, whatever the base.
C21_SecondaryTrigger ==
    (pc = "scrape" /\ CachedPositive) =>
        /\ \/ call.base \in {USD, ARS}
           \/ InList(call.symbols, USD) \/ InList(call.symbols, ARS)
        /\ BlueUsdArs(store, call.date_str) = {}

\* the official records stored for date d
OfficialRows(st, d) == {r \in st : r.rate_type = "official" /\ r.date = d}

\* the official records stored for date d with USD as one of their currencies
OfficialUsdRows(st, d) ==
    {r \in OfficialRows(st, d) : USD \in {r.from_currency, r.to_currency}}

\* get_rates is called
Called == pc = "idle" /\ pc' # "idle"

\* what the store is read for after the fetch of step 1: every requested
\* target the view of the store holds for the base is in the result with its
\* entry
ReadAfterFetch ==
    pc' = "done" =>
        \A T \in Requested(call') :
            LET entry == Leg(store', call'.base, T, call'.date_str, call'.rate_type)
            IN  DOMAIN entry # {} => T \in DOMAIN result' /\ result'[T] = entry

-----------------------------------------------------------------------------
(* Claims on the pivot interpolation *)

\* get_rates reaches its interpolation in this step: it has read the store
\* and either returns or awaits the fetch of _interpolate_via_usd
ReadsNow == pc \in {"idle", "oxr1", "scrape"} /\ pc' \in {"oxr2", "done"}

\* the requested targets the view of st has no entry for from the base
MissingTargets(st, c) ==
    {T \in Requested(c) : DOMAIN Leg(st, c.base, T, c.date_str, c.rate_type) = {}}

\* C23 as claimed: interpolation backfill.  When get_rates interpolates a
\* missing target T, the store holding base -> USD and no USD -> T rate
\* for the date (its rates positive), the resolver makes one call to the
\* primary provider, reads the USD rates again once and returns, never making
\* a second attempt.
C23_InterpolationBackfill ==
    [][ /\ ( /\ ReadsNow /\ call'.symbols # <<>>
             /\ \A r \in store' : Positive(r.rate)
             /\ DOMAIN Leg(store', call'.base, USD, call'.date_str, call'.rate_type) # {}
             /\ \E T \in MissingTargets(store', call') :
                    DOMAIN Leg(store', USD, T, call'.date_str, call'.rate_type) = {} )
           => pc' = "oxr2"
        /\ pc = "oxr2" =>
              /\ pc' = "done"
              /\ Len(prov') = Len(prov) + 1 /\ prov'[Len(prov')].provider = "oxr" ]_vars

\* C24: without base -> USD the interpolation is skipped.  When get_rates
\* reads the store and the view holds no rate from the base to USD on the
\* date under the requested classification filter, it returns at once: no
\* target missing from the base's rates is in the result, with a zero or any
\* other value, and the primary provider is not invoked for the interpolation.
C24_SkippedWithoutBaseLeg ==
    [][ ( /\ ReadsNow /\ call'.symbols # <<>>
          /\ DOMAIN Leg(store', call'.base, USD, call'.date_str, call'.rate_type) = {} )
        => /\ pc' = "done"
           /\ \A T \in MissingTargets(store', call') : T \notin DOMAIN result'
           /\ pc # "oxr1" =>
                 \A i \in 1..Len(prov') : prov'[i].provider = "oxr" => i <= Len(prov) ]_vars

\* a call has returned without a target that USD has a rate to, the base
\* having no rate to USD
C24_Witness ==
    /\ pc = "done" /\ call.symbols # <<>>
    /\ DOMAIN Leg(store, call.base, USD, call.date_str, call.rate_type) = {}
    /\ \E T \in MissingTargets(store, call) :
          /\ DOMAIN Leg(store, USD, T, call.date_str, call.rate_type) # {}
          /\ T \notin DOMAIN result

\* C25: with explicit targets the result holds requested currencies only,
\* each with a non-empty map of classifications to rates; a requested
\* currency that the store resolves neither by an entry of the view nor by
\* the pivot is left out, and the call returns all the same.
C25_OnlyRequested ==
    (pc = "done" /\ call.symbols # <<>>) =>
        /\ DOMAIN result \subseteq Requested(call)
        /\ \A T \in DOMAIN result :
              /\ DOMAIN result[T] # {}
              /\ \A cls \in DOMAIN result[T] : result[T][cls] # NoRate
        /\ \A T \in Requested(call) :
              ( /\ DOMAIN Leg(store, call.base, T, call.date_str, call.rate_type) = {}
                /\ DOMAIN Pivot(store, call.base, T, call.date_str, call.rate_type) = {} )
              => T \notin DOMAIN result

\* a call for two targets has returned one of them, interpolated, and has
\* left out the other, which the store does not resolve
C25_Witness ==
    /\ pc = "done" /\ Len(call.symbols) = 2
    /\ \E T \in DOMAIN result :
          DOMAIN Leg(store, call.base, T, call.date_str, call.rate_type) = {}
    /\ \E T \in Requested(call) : T \notin DOMAIN result
    /\ \E r \in store : r.to_currency \notin Requested(call) \cup {call.base}

-----------------------------------------------------------------------------
(* Claims on concurrent writers *)

\* the stored row a call of insert_rate leaves
RowOf(i) == Row(i.key[1], i.key[2], i.payload[1], i.key[4], i.key[3], i.payload[2], i.payload[3])

\* the insert_rate calls writer w has made in its batch
WrittenBy(w) == IF w \in DOMAIN tasks THEN {tasks[w].written[n] : n \in 1..Len(tasks[w].written)} ELSE {}

\* C26: same-key writes are serialized, the last one winning.  Under every
\* interleaving of the insert_rate calls of a backfilling get_rates, of the
\* refresh job and of direct upserts, the store holds in every state at most
\* one record per key, and that record is the one of the insert_rate that was
\* serialized last for the key; a step removes or changes no record but the
\* one under the key of the insert_rate it runs.
C26_LastWriteWins ==
    /\ [](/\ \A r1 \in store, r2 \in store : Key(r1) = Key(r2) => r1 = r2
          /\ \A r \in store : Key(r) \in DOMAIN lastWrite
          /\ \A k \in DOMAIN lastWrite :
                \E r \in store :
                    /\ Key(r) = k
                    /\ <<r.rate, r.source, r.fetched_at>> = lastWrite[k])
    /\ [][ \A r \in store :
              \/ r \in store'
              \/ \E w \in DOMAIN tasks :
                    /\ tasks[w].pending # <<>>
                    /\ tasks'[w].pending = Tail(tasks[w].pending)
                    /\ Head(tasks[w].pending).key = Key(r) ]_vars

\* two writers in the middle of their batches have both written one key with
\* different rates, the record stored is the later one's, and a record of
\* another key is stored
C26_Witness ==
    \E w1 \in DOMAIN tasks, w2 \in DOMAIN tasks :
        /\ w1 # w2
        /\ tasks[w1].pending # <<>> /\ tasks[w2].pending # <<>>
        /\ \E i1 \in WrittenBy(w1), i2 \in WrittenBy(w2) :
              /\ i1.key = i2.key /\ i1.payload[1] # i2.payload[1]
              /\ RowOf(i2) \in store
              /\ \E r \in store : Key(r) # i1.key

-----------------------------------------------------------------------------
(* Claims on repeated calls *)

\* the official USD -> X records a primary backfill stored under date d
BackfilledRows(st, d) ==
    {r \in OfficialRows(st, d) : r.from_currency = USD /\ r.source = "openexchangerates"}

\* C29 as claimed: cache hit.  Once a primary backfill has stored at least
\* one official record under date D, a later get_rates call with base USD and
\* date D returns without any invocation of the primary provider; the primary
\* provider is invoked by a call only when no official USD record is stored
\* under D.
C29_CacheHit ==
    (pc = "done" /\ call.base = USD /\ BackfilledRows(store0, call.date_str) # {}) =>
        \A i \in 1..Len(prov) : prov[i].provider # "oxr"

-----------------------------------------------------------------------------
(* Claims on the bidirectional view *)

\* the key of an entry of the view
ViewKey(v) == <<v.from_currency, v.to_currency, v.date, v.rate_type>>

\* C28: the bidirectional view holds at most one entry per key (from, to,
\* date, classification) in every reachable state: a direct entry and a
\* derived inverse never stand side by side under one key, so
\* get_all_rates_for_base finds at most one rate per currency and
\* classification.
C28_ViewOneEntryPerKey ==
    /\ \A v1 \in exchange_rates_bidirectional(store), v2 \in exchange_rates_bidirectional(store) :
          ViewKey(v1) = ViewKey(v2) => v1 = v2
    /\ \A base \in {USD, ARS}, rt \in RateTypes \cup {NoType} :
          \A v1 \in GetAllRows(store, base, Fri, rt), v2 \in GetAllRows(store, base, Fri, rt) :
              (v1.to_currency = v2.to_currency /\ v1.rate_type = v2.rate_type)
                  => v1.rate = v2.rate

\* both directions of a pair are stored under one classification with rates
\* that are not reciprocal, and one direction only under another one: the
\* view holds two direct entries and a derived inverse
C28_Witness ==
    \E r1 \in store, r2 \in store, r3 \in store :
        /\ r1.from_currency = r2.to_currency /\ r1.to_currency = r2.from_currency
        /\ r1.date = r2.date /\ r1.rate_type = r2.rate_type
        /\ Positive(r1.rate) /\ Positive(r2.rate) /\ r2.rate # Inv(r1.rate)
        /\ r3.rate_type # r1.rate_type /\ Positive(r3.rate)
        /\ \E v \in exchange_rates_bidirectional(store) :
              /\ v.rate_source = "inverse"
              /\ v.from_currency = r3.to_currency /\ v.rate_type = r3.rate_type

-----------------------------------------------------------------------------
(* Claims on concurrent calls *)

\* the providers get_rates invoked during a call, all of which stored
Backfilled(p) == {p[i].provider : i \in 1..Len(p)}

\* every invocation of the call returned
AllStored(p) == \A i \in 1..Len(p) : ~ p[i].failed

\* the store one backfill by the providers ps leaves when made on st, the
\* primary ingestion at time t1 and the secondary one at time t2
SingleBackfill(st, ps, d, t1, t2) ==
    LET s1 == IF "oxr" \in ps
              THEN fetch_and_store_rates(st, d, tasks.data.oxr, t1, Today).store
              ELSE st
    IN  IF "ambito" \in ps
        THEN scrape_and_store_ars_rates(s1, tasks.data.ambito, t2)
        ELSE s1

\* both coroutines are get_rates calls that have returned
BothReturned == Looping /\ pc = "done" /\ tasks.parked.pc = "done"

\* C27: a redundant double fetch is harmless.  When two concurrent get_rates
\* calls for the same base and date have both seen the same store, have both
\* run the same backfill and the providers have answered both alike, then
\* however their steps were interleaved the store they leave is the store
\* one backfill alone leaves, and each call returns what the store left by
\* one backfill resolves for it.
C27_DoubleFetchHarmless ==
    ( /\ BothReturned
      /\ call.base = tasks.parked.call.base /\ call.date_str = tasks.parked.call.date_str
      /\ store0 = tasks.parked.store0
      /\ prov # <<>> /\ prov = tasks.parked.prov /\ AllStored(prov) )
    => /\ \E t1 \in 0..MaxClock, t2 \in 0..MaxClock :
             store = SingleBackfill(store0, Backfilled(prov), call.date_str, t1, t2)
       /\ result = Resolvable(store, call)
       /\ tasks.parked.result = Resolvable(store, tasks.parked.call)

\* two calls that saw the same store have both invoked both providers, the
\* second backfill was made later than the first and both calls have
\* returned rates
C27_Witness ==
    /\ BothReturned
    /\ call.base = tasks.parked.call.base /\ call.date_str = tasks.parked.call.date_str
    /\ store0 = tasks.parked.store0
    /\ Len(prov) = 2 /\ prov = tasks.parked.prov /\ AllStored(prov)
    /\ DOMAIN result # {} /\ DOMAIN tasks.parked.result # {}
    /\ call # tasks.parked.call
    /\ store # store0
    /\ \E r \in store : r.fetched_at = MaxClock

\* the blue rate ARS -> USD the view of st holds for date d, if any
BlueArsUsd(st, d) ==
    LET l == Leg(st, ARS, USD, d, "blue")
    IN  IF "blue" \in DOMAIN l THEN {l["blue"]} ELSE {}

\* C30: no partially written batch is observed.  A get_rates call that runs
\* while the alternative-market batch is ingested by the refresh job or by
\* another call, and resolves ARS -> USD under blue for a date of the batch,
\* returns the rate the store resolved when it was called or 1/venta of the
\* batch, and never the reciprocal of the batch's compra.
C30_NoPartialBatch ==
    ( /\ Looping /\ pc = "done" /\ call.base = ARS
      /\ call.date_str \in DOMAIN tasks.data.ambito
      /\ USD \in DOMAIN result /\ "blue" \in DOMAIN result[USD] )
    => /\ result[USD]["blue"] \in
              BlueArsUsd(store0, call.date_str)
                  \cup {Inv(tasks.data.ambito[d][2]) : d \in DOMAIN tasks.data.ambito}
       /\ result[USD]["blue"] \notin
              {Inv(tasks.data.ambito[d][1]) : d \in DOMAIN tasks.data.ambito}

\* a call for ARS -> USD whose own scrape failed has returned 1/venta of the
\* batch the refresh job stored while the call was suspended, the store
\* having resolved another rate when it was called
C30_Witness ==
    /\ Looping /\ pc = "done" /\ call.base = ARS /\ call.symbols = <<USD>>
    /\ tasks.parked.pc = "job_done"
    /\ Len(prov) = 1 /\ prov[1].provider = "ambito" /\ prov[1].failed
    /\ BlueArsUsd(store0, call.date_str) # {}
    /\ USD \in DOMAIN result /\ "blue" \in DOMAIN result[USD]
    /\ result[USD]["blue"] \notin BlueArsUsd(store0, call.date_str)
    /\ result[USD]["blue"] = Inv(tasks.data.ambito[call.date_str][2])

====
